---- MODULE Spec2Model ----
(***************************************************************************)
(* acsv: asynchronous CSV reader and writer.                               *)
(*                                                                         *)
(* The read path (reader.py) is a scanner that pulls text chunks from an   *)
(* asynchronous source with one chunk of read-ahead and classifies every   *)
(* character into a token, and a row assembler (Reader.__aiter__) that     *)
(* drives a five-state machine over the tokens.  The write path            *)
(* (writer.py) encodes fields with one of the quoting strategies and       *)
(* joins them into rows.                                                   *)
(*                                                                         *)
(* Text is a sequence of one-character strings.  An Optional value is a    *)
(* sequence of length 0 (None) or 1 (the value).                           *)
(***************************************************************************)
EXTENDS Integers, Sequences, FiniteSets, TLC

\* Bounds of the model.
MaxLen == 4
MaxChunk == 2
MaxFieldLen == 1
MaxFields == 2
MaxEscLen == 6
MaxScanLen == 2
MaxRows == 2
MaxValueLen == 2
MaxWritten == 5
MaxFailed == 1

\* The characters the source may deliver: an ordinary character, the
\* delimiter, the quote character, the backslash (the escape character of
\* the dialects that configure one), a space, CR and LF.
Alphabet == {"a", ",", "\"", "\\", " ", "\r", "\n"}

None == <<>>

Some(v) == <<v>>

\* escapechar None
NoChar == ""

\* All texts of at most n characters over the alphabet A.
Texts(A, n) == UNION {[1..k -> A] : k \in 0..n}

(***************************************************************************)
(* Dialects                                                                *)
(***************************************************************************)
\* The "excel" base dialect, as copied field by field by _Dialect.__init__.
excel ==
    [delimiter |-> ",", quotechar |-> "\"", escapechar |-> NoChar,
     doublequote |-> TRUE, skipinitialspace |-> FALSE,
     lineterminator |-> <<"\r", "\n">>, quoting |-> "QUOTE_MINIMAL"]

\* get_dialect("excel", skipinitialspace=s, escapechar=e)
get_dialect(s, e) ==
    [excel EXCEPT !.skipinitialspace = IF s THEN TRUE ELSE @,
                  !.escapechar = e]

ReaderDialects == {get_dialect(s, e) : s \in BOOLEAN, e \in {NoChar, "\\"}}

\* The characters a source delivers to a reader of dialect d.  Without an
\* escapechar the backslash is one more ordinary character, which "a"
\* already stands for.
SourceAlphabet(d) ==
    IF d.escapechar = NoChar THEN Alphabet \ {"\\"} ELSE Alphabet

(***************************************************************************)
(* Scanner: classification of one character (_Scanner.__aiter__)           *)
(***************************************************************************)
\* Mutant of Classify: the space is tested before the delimiter.
Classify_space_first(d, char) ==
    IF char = d.quotechar THEN "QUOTE"
    ELSE IF d.escapechar # NoChar /\ char = d.escapechar THEN "ESCAPE_CHAR"
    ELSE IF char = "\r" THEN "CR"
    ELSE IF char = "\n" THEN "LF"
    ELSE IF char = " " THEN "WS"
    ELSE IF char = d.delimiter THEN "DELIMITER"
    ELSE "CHAR"

Classify(d, char) ==
    IF char = d.quotechar THEN "QUOTE"
    ELSE IF d.escapechar # NoChar /\ char = d.escapechar THEN "ESCAPE_CHAR"
    ELSE IF char = "\r" THEN "CR"
    ELSE IF char = "\n" THEN "LF"
    ELSE IF char = d.delimiter THEN "DELIMITER"
    ELSE IF char = " " THEN "WS"
    ELSE "CHAR"

(***************************************************************************)
(* Row assembler: the local state of Reader.__aiter__ as a record          *)
(*   state, field, line : the locals of __aiter__                          *)
(*   fieldnames, line_num : Reader._fieldnames, Reader.line_num            *)
(*   yielded : the rows the generator has yielded so far                   *)
(*   raised  : CsvError has been raised by bad_state                       *)
(***************************************************************************)
emit(r, character) ==
    [r EXCEPT !.field = Append(@, character),
              !.state = IF @ = "BEGIN_FIELD" THEN "FIELD" ELSE @]

new_field(r) ==
    [r EXCEPT !.line = Append(@, r.field),
              !.field = <<>>,
              !.state = "BEGIN_FIELD"]


\* Mutant of new_line: every finalized row replaces the fieldnames.
new_line_overwrite(r) ==
    [r EXCEPT !.fieldnames = Some(r.line),
              !.yielded = IF r.line # <<>> THEN Append(@, r.line) ELSE @,
              !.line = <<>>]

new_line(r) ==
    [r EXCEPT !.fieldnames = IF @ = None THEN Some(r.line) ELSE @,
              !.yielded = IF r.line # <<>> THEN Append(@, r.line) ELSE @,
              !.line = <<>>]


\* Mutant of bad_state: the error is not raised.
bad_state_silent(r) == r

bad_state(r) == [r EXCEPT !.raised = TRUE]

CaseCHAR(r, d, char) ==
    IF r.state = "EXPECT_QUOTE_OR_FIELD_TERM" THEN bad_state(r)
    ELSE emit(r, char)

CaseDELIMITER(r, d, char) ==
    IF r.state \in {"QUOTED_FIELD", "ESCAPE"} THEN emit(r, d.delimiter)
    ELSE new_field(r)


\* Mutant of CaseQUOTE: the second quote of a pair reopens the field but is
\* not written to it.
CaseQUOTE_dropped(r, d, char) ==
    CASE r.state = "BEGIN_FIELD" -> [r EXCEPT !.state = "QUOTED_FIELD"]
      [] r.state = "FIELD" -> [r EXCEPT !.raised = TRUE]
      [] r.state = "QUOTED_FIELD" ->
            [r EXCEPT !.state = "EXPECT_QUOTE_OR_FIELD_TERM"]
      [] r.state = "EXPECT_QUOTE_OR_FIELD_TERM" ->
            [r EXCEPT !.state = "QUOTED_FIELD"]
      [] OTHER -> [r EXCEPT !.raised = TRUE]

CaseQUOTE(r, d, char) ==
    CASE r.state = "BEGIN_FIELD" -> [r EXCEPT !.state = "QUOTED_FIELD"]
      [] r.state = "FIELD" -> bad_state(r)
      [] r.state = "QUOTED_FIELD" ->
            [r EXCEPT !.state = "EXPECT_QUOTE_OR_FIELD_TERM"]
      [] r.state = "EXPECT_QUOTE_OR_FIELD_TERM" ->
            [r EXCEPT !.state = "QUOTED_FIELD", !.field = Append(@, char)]
      [] OTHER -> bad_state(r)

\* Mutant of CaseESCAPE_CHAR: inside a quoted field the escape character
\* is one more literal character.
CaseESCAPE_CHAR_literal(r, d, char) ==
    IF d.escapechar # NoChar /\ r.state = "QUOTED_FIELD"
    THEN [r EXCEPT !.field = Append(@, d.escapechar)]
    ELSE IF d.escapechar # NoChar /\ r.state = "ESCAPE"
    THEN [r EXCEPT !.field = Append(@, d.escapechar)]
    ELSE IF d.escapechar # NoChar /\ r.state # "ESCAPE"
    THEN [r EXCEPT !.state = "ESCAPE"]
    ELSE [r EXCEPT !.raised = TRUE]

CaseESCAPE_CHAR(r, d, char) ==
    IF d.escapechar # NoChar /\ r.state = "ESCAPE"
    THEN [r EXCEPT !.field = Append(@, d.escapechar)]
    ELSE IF d.escapechar # NoChar /\ r.state # "ESCAPE"
    THEN [r EXCEPT !.state = "ESCAPE"]
    ELSE bad_state(r)


\* Mutant of CaseCR: a CR inside a quoted field is kept.
CaseCR_kept(r, d, char) ==
    IF r.state = "QUOTED_FIELD" THEN [r EXCEPT !.field = Append(@, char)]
    ELSE r

CaseCR(r, d, char) == r

CaseLF(r, d, char) ==
    LET r1 == [r EXCEPT !.line_num = @ + 1]
    IN  IF r1.state = "QUOTED_FIELD"
        THEN [r1 EXCEPT !.field = Append(@, "\n")]
        ELSE new_line(new_field(r1))


\* Mutant of CaseWS: skipinitialspace is not consulted.
CaseWS_noskip(r, d, char) ==
    [r EXCEPT !.field = Append(@, char),
              !.state = IF @ = "BEGIN_FIELD" THEN "FIELD" ELSE @]

CaseWS(r, d, char) ==
    IF d.skipinitialspace /\ r.state = "BEGIN_FIELD" THEN r
    ELSE emit(r, char)

\* Mutant of CaseEOF: end of input inside a quoted field or after an
\* escape character is an error.
CaseEOF_strict(r, d, char) ==
    IF r.state \in {"QUOTED_FIELD", "ESCAPE"} THEN [r EXCEPT !.raised = TRUE]
    ELSE new_line(new_field(r))

CaseEOF(r, d, char) == new_line(new_field(r))

\* The match statement of Reader.__aiter__.
Handle(r, d, token, char) ==
    CASE token = "CHAR" -> CaseCHAR(r, d, char)
      [] token = "DELIMITER" -> CaseDELIMITER(r, d, char)
      [] token = "QUOTE" -> CaseQUOTE(r, d, char)
      [] token = "ESCAPE_CHAR" -> CaseESCAPE_CHAR(r, d, char)
      [] token = "CR" -> CaseCR(r, d, char)
      [] token = "LF" -> CaseLF(r, d, char)
      [] token = "WS" -> CaseWS(r, d, char)
      [] token = "EOF" -> CaseEOF(r, d, char)
      [] OTHER -> bad_state(r)

\* The locals of a fresh __aiter__ call on a fresh Reader.
NewReader ==
    [state |-> "BEGIN_FIELD", field |-> <<>>, line |-> <<>>,
     fieldnames |-> None, line_num |-> 0, yielded |-> <<>>,
     raised |-> FALSE]

\* The reader loop run over the characters of t, up to but without the EOF
\* token; it stops at the first CsvError.
RECURSIVE ParseTokens(_, _)
ParseTokens(d, t) ==
    IF t = <<>> THEN NewReader
    ELSE LET r == ParseTokens(d, SubSeq(t, 1, Len(t) - 1))
             char == t[Len(t)]
         IN  IF r.raised THEN r ELSE Handle(r, d, Classify(d, char), char)

\* The whole pass over a source whose text is t.
ParseText(d, t) ==
    LET r == ParseTokens(d, t)
    IN  IF r.raised THEN r ELSE Handle(r, d, "EOF", "")

\* Reader.fieldnames (the property): raises CsvError while _fieldnames is
\* None, else returns it.
Reader_fieldnames(names) ==
    IF names = None THEN [raises |-> TRUE, value |-> <<>>]
    ELSE [raises |-> FALSE, value |-> names[1]]

(***************************************************************************)
(* Writer: the quoting strategies and the row formatter.                   *)
(* A value is [str |-> it is a str (not an int or float), text |-> the     *)
(* characters of str(value)].  An encoder returns [raises |-> an exception *)
(* is raised, text |-> the encoded field].                                 *)
(***************************************************************************)
Ok(t) == [raises |-> FALSE, text |-> t]

Raise == [raises |-> TRUE, text |-> <<>>]

\* value.replace(c, seq) for a one-character c
RECURSIVE Replace(_, _, _)
Replace(value, c, seq) ==
    IF value = <<>> THEN <<>>
    ELSE (IF Head(value) = c THEN seq ELSE <<Head(value)>>)
             \o Replace(Tail(value), c, seq)

\* c in value, for a one-character c
Contains(value, c) == \E i \in 1..Len(value) : value[i] = c

\* Writer.__init__: the escape sequences (None without an escapechar)
escape_doublequote(d) == Some(<<d.quotechar, d.quotechar>>)

escape_quote_sequence(d) ==
    IF d.escapechar = NoChar THEN None ELSE Some(<<d.escapechar, d.quotechar>>)

escape_delimiter_sequence(d) ==
    IF d.escapechar = NoChar THEN None ELSE Some(<<d.escapechar, d.delimiter>>)

\* Mutant of quote_all_doublequote: internal quote characters are left
\* alone.
quote_all_doublequote_plain(d, value) ==
    [raises |-> FALSE,
     text |-> <<d.quotechar>> \o value.text \o <<d.quotechar>>]

quote_all_doublequote(d, value) ==
    Ok(<<d.quotechar>>
         \o Replace(value.text, d.quotechar, escape_doublequote(d)[1])
         \o <<d.quotechar>>)

quote_all_escape(d, value) ==
    LET v == IF Contains(value.text, d.quotechar)
             THEN Replace(value.text, d.quotechar, escape_doublequote(d)[1])
             ELSE value.text
    IN  Ok(<<d.quotechar>> \o v \o <<d.quotechar>>)

\* Mutant of quote_minimal_doublequote: a delimiter alone does not make
\* the field quoted.
quote_minimal_doublequote_nodelim(d, value) ==
    IF \E i \in 1..Len(value.text) : value.text[i] = d.quotechar
    THEN [raises |-> FALSE,
          text |-> <<d.quotechar>>
                     \o Replace(value.text, d.quotechar,
                                <<d.quotechar, d.quotechar>>)
                     \o <<d.quotechar>>]
    ELSE [raises |-> FALSE, text |-> value.text]

quote_minimal_doublequote(d, value) ==
    LET has_quote == Contains(value.text, d.quotechar)
        v == IF has_quote
             THEN Replace(value.text, d.quotechar, escape_doublequote(d)[1])
             ELSE value.text
        need_quotes == has_quote \/ Contains(v, d.delimiter)
    IN  IF need_quotes THEN Ok(<<d.quotechar>> \o v \o <<d.quotechar>>)
        ELSE Ok(v)

quote_minimal_escape(d, value) ==
    IF Contains(value.text, d.quotechar) /\ escape_quote_sequence(d) = None
    THEN Raise
    ELSE LET v == IF Contains(value.text, d.quotechar)
                  THEN Replace(value.text, d.quotechar,
                               escape_quote_sequence(d)[1])
                  ELSE value.text
         IN  IF Contains(v, d.delimiter)
             THEN Ok(<<d.quotechar>> \o v \o <<d.quotechar>>)
             ELSE Ok(v)

quote_nonnumeric_doublequote(d, value) ==
    IF value.str THEN quote_all_doublequote(d, value)
    ELSE quote_minimal_escape(d, value)

quote_nonnumeric_escape(d, value) ==
    IF value.str THEN quote_all_escape(d, value)
    ELSE quote_minimal_escape(d, value)

\* Mutant of quote_none: quote characters are escaped as well.
quote_none_quotes(d, value) ==
    IF (\E i \in 1..Len(value.text) : value.text[i] = d.delimiter)
          /\ d.escapechar = NoChar
    THEN [raises |-> TRUE, text |-> <<>>]
    ELSE [raises |-> FALSE,
          text |-> Replace(Replace(value.text, d.delimiter,
                                   <<d.escapechar, d.delimiter>>),
                           d.quotechar, <<d.escapechar, d.quotechar>>)]

quote_none(d, value) ==
    IF Contains(value.text, d.delimiter)
    THEN IF escape_delimiter_sequence(d) = None THEN Raise
         ELSE Ok(Replace(value.text, d.delimiter,
                         escape_delimiter_sequence(d)[1]))
    ELSE Ok(value.text)

\* self._quote, as selected by Writer.__init__
quote(d, value) ==
    CASE d.quoting = "QUOTE_ALL" /\ d.doublequote ->
            quote_all_doublequote(d, value)
      [] d.quoting = "QUOTE_ALL" /\ ~d.doublequote ->
            quote_all_escape(d, value)
      [] d.quoting = "QUOTE_MINIMAL" /\ d.doublequote ->
            quote_minimal_doublequote(d, value)
      [] d.quoting = "QUOTE_MINIMAL" /\ ~d.doublequote ->
            quote_minimal_escape(d, value)
      [] d.quoting = "QUOTE_NONNUMERIC" /\ d.doublequote ->
            quote_nonnumeric_doublequote(d, value)
      [] d.quoting = "QUOTE_NONNUMERIC" /\ ~d.doublequote ->
            quote_nonnumeric_escape(d, value)
      [] d.quoting = "QUOTE_NONE" -> quote_none(d, value)

\* The encoded fields of row joined by the delimiter; raises as soon as
\* the encoding of a field raises.
RECURSIVE JoinFields(_, _)
JoinFields(d, row) ==
    IF row = <<>> THEN Ok(<<>>)
    ELSE LET rest == JoinFields(d, SubSeq(row, 1, Len(row) - 1))
             last == quote(d, row[Len(row)])
         IN  IF rest.raises \/ last.raises THEN Raise
             ELSE IF Len(row) = 1 THEN Ok(last.text)
             ELSE Ok(rest.text \o <<d.delimiter>> \o last.text)

\* Mutant of formatrow: the line terminator is written after every row.
formatrow_trailing(d, newline, row) ==
    LET fields == JoinFields(d, row)
    IN  IF fields.raises THEN [raises |-> TRUE, text |-> <<>>]
        ELSE [raises |-> FALSE, text |-> fields.text \o d.lineterminator]

formatrow(d, newline, row) ==
    LET fields == JoinFields(d, row)
    IN  IF fields.raises THEN Raise
        ELSE Ok((IF newline THEN d.lineterminator ELSE <<>>) \o fields.text)

(***************************************************************************)
(* State                                                                   *)
(*   dialect      : Reader.dialect                                         *)
(*   text         : every character the source has returned so far         *)
(*   next_fill    : _Scanner._next_fill, the read-ahead task               *)
(*   buffer, bpos, pos, scanner_line, line_start : the _Scanner fields     *)
(*   state, field, line : the locals of Reader.__aiter__                   *)
(*   fieldnames, line_num : Reader._fieldnames, Reader.line_num            *)
(*   yielded      : the rows the consumer has received                     *)
(*   prev         : kind of the last token handled ("NONE" before any)     *)
(*   pc           : where the iteration stands                             *)
(*       start    the Reader is constructed, iteration has not begun       *)
(*       advance  the scanner is about to call _advance                    *)
(*       token    _fill has returned a chunk, its first character is due   *)
(*       eof      _fill has returned the empty chunk, the EOF token is due *)
(*       yield    the generator is suspended at the yield of a row         *)
(*       raise    bad_state has raised, the scanner is not yet released    *)
(*       closing  the consumer has closed the generator at a yield         *)
(*       done, error, closed : the iteration is over                       *)
(*       write    (round trip) the Writer is constructed, no Reader yet    *)
(*   needs_newline : Writer._needs_newline                                 *)
(*   sink         : the text written to the Writer's csvfile               *)
(*   written      : the rows passed to the writerow calls that returned    *)
(*   failed_calls : number of writerow calls that have raised              *)
(*   read_task    : the task object last made by asyncio.create_task:      *)
(*       none       no task has been created                               *)
(*       pending    csvfile.read is in flight                              *)
(*       done       csvfile.read has returned, the task holds the chunk    *)
(*       cancelled  the task was cancelled before csvfile.read returned    *)
(*   source_eof   : a csvfile.read call has returned the empty string      *)
(*   eof_tokens   : number of EOF tokens the scanner has yielded           *)
(*   outstanding  : number of read tasks created and neither received by   *)
(*                  the scanner (awaited to their result) nor cancelled    *)
(***************************************************************************)
VARIABLES dialect, text, next_fill, buffer, bpos, pos, scanner_line,
          line_start, state, field, line, fieldnames, line_num, yielded,
          prev, pc, needs_newline, sink, written,
          read_task, source_eof, eof_tokens, outstanding, failed_calls

scanner_vars == <<next_fill, buffer, bpos, pos, scanner_line, line_start>>

reader_vars == <<state, field, line, fieldnames, line_num, yielded>>

writer_vars == <<needs_newline, sink, written, failed_calls>>

history_vars == <<read_task, source_eof, eof_tokens, outstanding>>

vars ==
    <<dialect, text, scanner_vars, reader_vars, prev, pc, writer_vars,
      history_vars>>

NoTask == [status |-> "none", result |-> <<>>]

\* asyncio.create_task(self.csvfile.read(self.buffer_size))
create_task == [status |-> "pending", result |-> <<>>]

\* The row assembler's state as a record, and back.
R ==
    [state |-> state, field |-> field, line |-> line,
     fieldnames |-> fieldnames, line_num |-> line_num, yielded |-> yielded,
     raised |-> FALSE]

SetReader(r) ==
    /\ state' = r.state
    /\ field' = r.field
    /\ line' = r.line
    /\ fieldnames' = r.fieldnames
    /\ line_num' = r.line_num
    /\ yielded' = r.yielded

Init ==
    /\ dialect \in ReaderDialects
    /\ text = <<>>
    /\ next_fill = NoTask
    /\ buffer = None
    /\ bpos = 0
    /\ pos = 0
    /\ scanner_line = 1
    /\ line_start = 0
    /\ state = NewReader.state
    /\ field = NewReader.field
    /\ line = NewReader.line
    /\ fieldnames = NewReader.fieldnames
    /\ line_num = NewReader.line_num
    /\ yielded = NewReader.yielded
    /\ prev = "NONE"
    /\ pc = "start"
    /\ needs_newline = FALSE
    /\ sink = <<>>
    /\ written = <<>>
    /\ failed_calls = 0
    /\ read_task = "none"
    /\ source_eof = FALSE
    /\ eof_tokens = 0
    /\ outstanding = 0

(***************************************************************************)
(* The chunk source                                                        *)
(***************************************************************************)
\* The event loop runs the read-ahead task only while the reader's own
\* task is suspended: at the await of _fill, or at the yield of a row while
\* the consumer awaits something else.
Suspended ==
    \/ pc = "yield"
    \/ /\ pc = "advance"
       /\ IF buffer = None THEN TRUE ELSE bpos + 1 = Len(buffer[1])

\* csvfile.read(buffer_size) completes inside the read-ahead task: the
\* source returns a chunk of its choice, the empty chunk at end of stream.
ReadChunk ==
    /\ next_fill.status = "pending"
    /\ read_task = "pending"
    /\ Suspended
    /\ \E chunk \in Texts(SourceAlphabet(dialect), MaxChunk) :
          /\ Len(text) + Len(chunk) <= MaxLen
          /\ next_fill' = [status |-> "done", result |-> chunk]
          /\ text' = text \o chunk
          /\ source_eof' = (chunk = <<>>)
    /\ read_task' = "done"
    /\ eof_tokens' = eof_tokens
    /\ outstanding' = outstanding
    /\ UNCHANGED <<dialect, buffer, bpos, pos, scanner_line, line_start,
                   reader_vars, prev, pc,
                   writer_vars>>

(***************************************************************************)
(* Scanner                                                                 *)
(***************************************************************************)
\* Reader.__aiter__ up to the scanner loop: _Scanner.__aenter__ creates the
\* first read task.
Enter ==
    /\ pc = "start"
    /\ next_fill' = create_task
    /\ read_task' = "pending"
    /\ outstanding' = outstanding + 1
    /\ pc' = "advance"
    /\ UNCHANGED <<dialect, text, buffer, bpos, pos, scanner_line,
                   line_start, reader_vars, prev,
                   writer_vars, source_eof, eof_tokens>>

\* _advance reaches _fill: no buffer yet, or the last character of the
\* buffer has been consumed.
NeedFill ==
    /\ pc = "advance"
    /\ IF buffer = None THEN TRUE ELSE bpos + 1 = Len(buffer[1])

\* Mutant of Fill: the next read is issued after the empty chunk too.
Fill_reissue ==
    /\ NeedFill
    /\ next_fill.status = "done"
    /\ pos' = IF buffer = None THEN pos ELSE pos + 1
    /\ bpos' = 0
    /\ buffer' = Some(next_fill.result)
    /\ next_fill' = [status |-> "pending", result |-> <<>>]
    /\ read_task' = "pending"
    /\ outstanding' = outstanding
    /\ pc' = IF Len(next_fill.result) = 0 THEN "eof" ELSE "token"
    /\ UNCHANGED <<dialect, text, scanner_line, line_start, reader_vars,
                   prev,
                   writer_vars, source_eof, eof_tokens>>

\* Mutant of Fill: the next read is not issued when a chunk is received.
Fill_no_readahead ==
    /\ NeedFill
    /\ next_fill.status = "done"
    /\ pos' = IF buffer = None THEN pos ELSE pos + 1
    /\ bpos' = 0
    /\ buffer' = Some(next_fill.result)
    /\ next_fill' = [status |-> "none", result |-> <<>>]
    /\ read_task' = read_task
    /\ outstanding' = outstanding - 1
    /\ pc' = IF Len(next_fill.result) = 0 THEN "eof" ELSE "token"
    /\ UNCHANGED <<dialect, text, scanner_line, line_start, reader_vars,
                   prev,
                   writer_vars, source_eof, eof_tokens>>

\* Mutant of Fill: the position is not advanced when the buffer is
\* replaced.
Fill_same_pos ==
    /\ NeedFill
    /\ next_fill.status = "done"
    /\ pos' = pos
    /\ bpos' = 0
    /\ buffer' = Some(next_fill.result)
    /\ IF Len(next_fill.result) = 0
       THEN /\ next_fill' = [status |-> "none", result |-> <<>>]
            /\ read_task' = read_task
            /\ outstanding' = outstanding - 1
            /\ pc' = "eof"
       ELSE /\ next_fill' = [status |-> "pending", result |-> <<>>]
            /\ read_task' = "pending"
            /\ outstanding' = outstanding - 1 + 1
            /\ pc' = "token"
    /\ UNCHANGED <<dialect, text, scanner_line, line_start, reader_vars,
                   prev,
                   writer_vars, source_eof, eof_tokens>>

\* _advance (the increments before _fill) and _fill, which awaits the
\* pending read and, unless the chunk is empty, issues the next one.
Fill ==
    /\ NeedFill
    /\ next_fill.status = "done"
    /\ pos' = IF buffer = None THEN pos ELSE pos + 1
    /\ bpos' = 0
    /\ buffer' = Some(next_fill.result)
    /\ IF Len(next_fill.result) = 0
       THEN /\ next_fill' = NoTask
            /\ read_task' = read_task
            /\ outstanding' = outstanding - 1
            /\ pc' = "eof"
       ELSE /\ next_fill' = create_task
            /\ read_task' = "pending"
            /\ outstanding' = outstanding - 1 + 1
            /\ pc' = "token"
    /\ UNCHANGED <<dialect, text, scanner_line, line_start, reader_vars,
                   prev,
                   writer_vars, source_eof, eof_tokens>>

\* A character is available without awaiting: _fill has just returned it,
\* or _advance stays inside the buffer.
HasToken ==
    IF pc = "token" THEN TRUE
    ELSE IF pc = "advance" /\ buffer # None THEN bpos + 1 < Len(buffer[1])
    ELSE FALSE

TokBpos == IF pc = "token" THEN bpos ELSE bpos + 1

TokPos == IF pc = "token" THEN pos ELSE pos + 1

\* _Scanner.current after the advance
current == buffer[1][TokBpos + 1]

\* One iteration of the scanner loop and of the reader loop: the scanner
\* advances inside the buffer (or has just filled it), classifies the
\* character and yields the token; the reader runs the matching case.
OnToken(kind) ==
    /\ bpos' = TokBpos
    /\ pos' = TokPos
    /\ scanner_line' = IF kind = "LF" THEN scanner_line + 1 ELSE scanner_line
    /\ line_start' = IF kind = "LF" THEN TokPos ELSE line_start
    /\ LET r == Handle(R, dialect, kind, current)
       IN  /\ SetReader(r)
           /\ pc' = IF r.raised THEN "raise"
                    ELSE IF Len(r.yielded) > Len(yielded) THEN "yield"
                    ELSE "advance"
    /\ prev' = kind
    /\ UNCHANGED <<dialect, text, next_fill, buffer,
                   writer_vars, history_vars>>

OnCHAR ==
    /\ HasToken
    /\ Classify(dialect, current) = "CHAR"
    /\ OnToken("CHAR")

OnDELIMITER ==
    /\ HasToken
    /\ Classify(dialect, current) = "DELIMITER"
    /\ OnToken("DELIMITER")

OnQUOTE ==
    /\ HasToken
    /\ Classify(dialect, current) = "QUOTE"
    /\ OnToken("QUOTE")

OnESCAPE_CHAR ==
    /\ HasToken
    /\ Classify(dialect, current) = "ESCAPE_CHAR"
    /\ OnToken("ESCAPE_CHAR")

OnCR ==
    /\ HasToken
    /\ Classify(dialect, current) = "CR"
    /\ OnToken("CR")

OnLF ==
    /\ HasToken
    /\ Classify(dialect, current) = "LF"
    /\ OnToken("LF")

OnWS ==
    /\ HasToken
    /\ Classify(dialect, current) = "WS"
    /\ OnToken("WS")

\* The EOF token: the reader finalizes the field and the row, yields the
\* row and returns; __aexit__ finds _next_fill None.
OnEOF ==
    /\ pc = "eof"
    /\ SetReader(Handle(R, dialect, "EOF", ""))
    /\ prev' = "EOF"
    /\ eof_tokens' = eof_tokens + 1
    /\ pc' = "done"
    /\ UNCHANGED <<dialect, text, scanner_vars,
                   writer_vars, read_task, source_eof, outstanding>>

\* The consumer asks for the next row: the generator resumes after the
\* yield of the LF case.
Resume ==
    /\ pc = "yield"
    /\ pc' = "advance"
    /\ UNCHANGED <<dialect, text, scanner_vars, reader_vars, prev,
                   writer_vars, history_vars>>

\* The consumer stops iterating: the generator is closed at the yield.
Close ==
    /\ pc = "yield"
    /\ pc' = "closing"
    /\ UNCHANGED <<dialect, text, scanner_vars, reader_vars, prev,
                   writer_vars, history_vars>>

\* _Scanner.__aexit__ on an exception or a close: cancel the read-ahead,
\* await it, forget it.

\* Mutant of AExit: the error is swallowed on release and the token loop
\* goes on.
AExit_resume ==
    /\ pc \in {"raise", "closing"}
    /\ next_fill' = [status |-> "none", result |-> <<>>]
    /\ read_task' = IF read_task = "pending" THEN "cancelled" ELSE read_task
    /\ outstanding' = outstanding - 1
    /\ pc' = IF pc = "raise" THEN "advance" ELSE "closed"
    /\ UNCHANGED <<dialect, text, buffer, bpos, pos, scanner_line,
                   line_start, reader_vars, prev,
                   writer_vars, source_eof, eof_tokens>>

\* Mutant of AExit: the reference to the read-ahead task is dropped, the
\* task is neither cancelled nor awaited.
AExit_forget ==
    /\ pc \in {"raise", "closing"}
    /\ next_fill' = [status |-> "none", result |-> <<>>]
    /\ pc' = IF pc = "raise" THEN "error" ELSE "closed"
    /\ UNCHANGED <<dialect, text, buffer, bpos, pos, scanner_line,
                   line_start, reader_vars, prev,
                   writer_vars, history_vars>>

AExit ==
    /\ pc \in {"raise", "closing"}
    /\ IF next_fill # NoTask
       THEN \* cancel() reaches a read in flight, not a finished one; the
            \* await returns once the task is over either way.
            /\ read_task' =
                  IF read_task = "pending" THEN "cancelled" ELSE read_task
            /\ next_fill' = NoTask
            /\ outstanding' = outstanding - 1
       ELSE UNCHANGED <<read_task, next_fill, outstanding>>
    /\ pc' = IF pc = "raise" THEN "error" ELSE "closed"
    /\ UNCHANGED <<dialect, text, buffer, bpos, pos, scanner_line,
                   line_start, reader_vars, prev,
                   writer_vars, source_eof, eof_tokens>>

Next ==
    \/ ReadChunk
    \/ Enter
    \/ Fill
    \/ OnCHAR
    \/ OnDELIMITER
    \/ OnQUOTE
    \/ OnESCAPE_CHAR
    \/ OnCR
    \/ OnLF
    \/ OnWS
    \/ OnEOF
    \/ Resume
    \/ Close
    \/ AExit

Spec == Init /\ [][Next]_vars

(***************************************************************************)
(* Round trip: a Writer writes one row to a file, a Reader of the same     *)
(* dialect then reads the file.                                            *)
(***************************************************************************)
\* The dialects a Writer and a Reader are constructed with.
Dialects ==
    {[excel EXCEPT !.quoting = q, !.doublequote = dq, !.escapechar = e,
                   !.skipinitialspace = s] :
        q \in {"QUOTE_ALL", "QUOTE_MINIMAL", "QUOTE_NONNUMERIC", "QUOTE_NONE"},
        dq \in BOOLEAN, e \in {NoChar, "\\"}, s \in BOOLEAN}

\* The escapechar is there when the quoting strategy needs one.
Consistent(d) ==
    (d.quoting = "QUOTE_NONE" \/ ~d.doublequote) => d.escapechar # NoChar

\* t holds the sequence term at some position.
HasSubSeq(t, term) ==
    \E i \in 1..(Len(t) - Len(term) + 1) :
        SubSeq(t, i, i + Len(term) - 1) = term

\* The str values of at most MaxFieldLen characters that do not hold the
\* line terminator of d.
TextValues(d) ==
    {[str |-> TRUE, text |-> t] :
        t \in {u \in Texts(Alphabet, MaxFieldLen) :
                  ~HasSubSeq(u, d.lineterminator)}}

\* The rows of one to MaxFields such values.
TextRows(d) == UNION {[1..n -> TextValues(d)] : n \in 1..MaxFields}

\* The field strings of a row
FieldTexts(row) == [i \in 1..Len(row) |-> row[i].text]

InitRoundTrip ==
    /\ dialect \in {d \in Dialects : Consistent(d)}
    /\ text = <<>>
    /\ next_fill = NoTask
    /\ buffer = None
    /\ bpos = 0
    /\ pos = 0
    /\ scanner_line = 1
    /\ line_start = 0
    /\ state = NewReader.state
    /\ field = NewReader.field
    /\ line = NewReader.line
    /\ fieldnames = NewReader.fieldnames
    /\ line_num = NewReader.line_num
    /\ yielded = NewReader.yielded
    /\ prev = "NONE"
    /\ pc = "write"
    /\ needs_newline = FALSE
    /\ sink = <<>>
    /\ written = <<>>
    /\ failed_calls = 0
    /\ read_task = "none"
    /\ source_eof = FALSE
    /\ eof_tokens = 0
    /\ outstanding = 0

\* Writer.writerow(row), then a Reader is constructed on the file.  When
\* the encoding raises, nothing is written and the flag is left alone.
WriteRow ==
    /\ pc = "write"
    /\ \E row \in TextRows(dialect) :
          LET res == formatrow(dialect, needs_newline, row)
          IN  IF res.raises
              THEN /\ failed_calls' = failed_calls + 1
                   /\ UNCHANGED <<needs_newline, sink, written>>
              ELSE /\ sink' = sink \o res.text
                   /\ needs_newline' = TRUE
                   /\ written' = Append(written, row)
                   /\ failed_calls' = failed_calls
    /\ pc' = "start"
    /\ UNCHANGED <<dialect, text, scanner_vars, reader_vars, prev,
                   history_vars>>

\* csvfile.read(buffer_size) on the written file: the next characters of
\* the file, the empty chunk once all of it has been read.
ReadSink ==
    /\ next_fill.status = "pending"
    /\ read_task = "pending"
    /\ Suspended
    /\ \E k \in 0..MaxChunk :
          /\ Len(text) + k <= Len(sink)
          /\ k = 0 => Len(text) = Len(sink)
          /\ next_fill' =
                [status |-> "done",
                 result |-> SubSeq(sink, Len(text) + 1, Len(text) + k)]
          /\ text' = text \o SubSeq(sink, Len(text) + 1, Len(text) + k)
          /\ source_eof' = (k = 0)
    /\ read_task' = "done"
    /\ eof_tokens' = eof_tokens
    /\ outstanding' = outstanding
    /\ UNCHANGED <<dialect, buffer, bpos, pos, scanner_line, line_start,
                   reader_vars, prev, pc, writer_vars>>

NextRoundTrip ==
    \/ WriteRow
    \/ ReadSink
    \/ Enter
    \/ Fill
    \/ OnCHAR
    \/ OnDELIMITER
    \/ OnQUOTE
    \/ OnESCAPE_CHAR
    \/ OnCR
    \/ OnLF
    \/ OnWS
    \/ OnEOF
    \/ Resume
    \/ Close
    \/ AExit

SpecRoundTrip == InitRoundTrip /\ [][NextRoundTrip]_vars

(***************************************************************************)
(* A Reader constructed with escapechar="\\" on a source of lines of       *)
(* ordinary characters, delimiters, quote and escape characters.           *)
(***************************************************************************)
\* Reader(fp, escapechar="\\")
EscapeDialect == get_dialect(FALSE, "\\")

\* The characters such a source delivers.
EscapeAlphabet == {"a", ",", "\"", "\\", "\n"}

InitEscape ==
    /\ dialect = EscapeDialect
    /\ text = <<>>
    /\ next_fill = NoTask
    /\ buffer = None
    /\ bpos = 0
    /\ pos = 0
    /\ scanner_line = 1
    /\ line_start = 0
    /\ state = NewReader.state
    /\ field = NewReader.field
    /\ line = NewReader.line
    /\ fieldnames = NewReader.fieldnames
    /\ line_num = NewReader.line_num
    /\ yielded = NewReader.yielded
    /\ prev = "NONE"
    /\ pc = "start"
    /\ needs_newline = FALSE
    /\ sink = <<>>
    /\ written = <<>>
    /\ failed_calls = 0
    /\ read_task = "none"
    /\ source_eof = FALSE
    /\ eof_tokens = 0
    /\ outstanding = 0

\* csvfile.read(buffer_size) completes inside the read-ahead task.
ReadEscaped ==
    /\ next_fill.status = "pending"
    /\ read_task = "pending"
    /\ Suspended
    /\ \E chunk \in Texts(EscapeAlphabet, MaxChunk) :
          /\ Len(text) + Len(chunk) <= MaxEscLen
          /\ next_fill' = [status |-> "done", result |-> chunk]
          /\ text' = text \o chunk
          /\ source_eof' = (chunk = <<>>)
    /\ read_task' = "done"
    /\ eof_tokens' = eof_tokens
    /\ outstanding' = outstanding
    /\ UNCHANGED <<dialect, buffer, bpos, pos, scanner_line, line_start,
                   reader_vars, prev, pc, writer_vars>>

NextEscape ==
    \/ ReadEscaped
    \/ Enter
    \/ Fill
    \/ OnCHAR
    \/ OnDELIMITER
    \/ OnQUOTE
    \/ OnESCAPE_CHAR
    \/ OnLF
    \/ OnEOF
    \/ Resume
    \/ Close
    \/ AExit

SpecEscape == InitEscape /\ [][NextEscape]_vars

(***************************************************************************)
(* Readers whose dialect characters may coincide: Reader(fp, delimiter=dl, *)
(* escapechar=e) on short texts.                                           *)
(***************************************************************************)
\* get_dialect("excel", delimiter=dl, escapechar=e)
ScanDialects ==
    {[excel EXCEPT !.delimiter = dl, !.escapechar = e] :
        dl \in {",", " ", "\"", "\\", "\r", "\n"},
        e \in {NoChar, "\\", " "}}

InitScan ==
    /\ dialect \in ScanDialects
    /\ text = <<>>
    /\ next_fill = NoTask
    /\ buffer = None
    /\ bpos = 0
    /\ pos = 0
    /\ scanner_line = 1
    /\ line_start = 0
    /\ state = NewReader.state
    /\ field = NewReader.field
    /\ line = NewReader.line
    /\ fieldnames = NewReader.fieldnames
    /\ line_num = NewReader.line_num
    /\ yielded = NewReader.yielded
    /\ prev = "NONE"
    /\ pc = "start"
    /\ needs_newline = FALSE
    /\ sink = <<>>
    /\ written = <<>>
    /\ failed_calls = 0
    /\ read_task = "none"
    /\ source_eof = FALSE
    /\ eof_tokens = 0
    /\ outstanding = 0

\* csvfile.read(buffer_size) completes inside the read-ahead task.
ReadScan ==
    /\ next_fill.status = "pending"
    /\ read_task = "pending"
    /\ Suspended
    /\ \E chunk \in Texts(Alphabet, MaxChunk) :
          /\ Len(text) + Len(chunk) <= MaxScanLen
          /\ next_fill' = [status |-> "done", result |-> chunk]
          /\ text' = text \o chunk
          /\ source_eof' = (chunk = <<>>)
    /\ read_task' = "done"
    /\ eof_tokens' = eof_tokens
    /\ outstanding' = outstanding
    /\ UNCHANGED <<dialect, buffer, bpos, pos, scanner_line, line_start,
                   reader_vars, prev, pc, writer_vars>>

NextScan ==
    \/ ReadScan
    \/ Enter
    \/ Fill
    \/ OnCHAR
    \/ OnDELIMITER
    \/ OnQUOTE
    \/ OnESCAPE_CHAR
    \/ OnCR
    \/ OnLF
    \/ OnWS
    \/ OnEOF
    \/ Resume
    \/ Close
    \/ AExit

SpecScan == InitScan /\ [][NextScan]_vars

(***************************************************************************)
(* Write path: a Writer is constructed on an empty file and writerow is    *)
(* called on it again and again (writerows is that loop).                  *)
(*   pc = new          the dialect is chosen, Writer.__init__ has not run  *)
(*   pc = write        the Writer is constructed                           *)
(*   pc = init_error   Writer.__init__ has raised                          *)
(*   pc = write_error  the last writerow call has raised; the caller may   *)
(*                     go on writing                                       *)
(***************************************************************************)
\* The quoting constants Writer.__init__ has a case for.
SupportedQuoting ==
    {"QUOTE_ALL", "QUOTE_MINIMAL", "QUOTE_NONNUMERIC", "QUOTE_NONE"}

\* The dialects a Writer is constructed with; QUOTE_STRINGS stands for a
\* quoting constant that Writer.__init__ has no case for.
WriterDialects ==
    {[excel EXCEPT !.quoting = q, !.doublequote = dq, !.escapechar = e] :
        q \in SupportedQuoting \cup {"QUOTE_STRINGS"},
        dq \in BOOLEAN, e \in {NoChar, "\\"}}

\* The values written: the strings of at most MaxValueLen ordinary
\* characters, delimiters and quote characters, and the number 1.
WriterValues ==
    {[str |-> TRUE, text |-> t] : t \in Texts({"a", ",", "\""}, MaxValueLen)}
        \cup {[str |-> FALSE, text |-> <<"1">>]}

\* Size of the rows written: one per field, one per character.
RECURSIVE Size(_)
Size(row) ==
    IF row = <<>> THEN 0
    ELSE 1 + Len(Head(row).text) + Size(Tail(row))

RECURSIVE TotalSize(_)
TotalSize(rows) ==
    IF rows = <<>> THEN 0 ELSE Size(Head(rows)) + TotalSize(Tail(rows))

\* The rows of at most k such values whose size is at most b.
RECURSIVE WriterRows(_, _)
WriterRows(b, k) ==
    {<<>>} \cup
        (IF k = 0 THEN {}
         ELSE UNION {{<<v>> \o r : r \in WriterRows(b - 1 - Len(v.text), k - 1)} :
                        v \in {w \in WriterValues : 1 + Len(w.text) <= b}})

InitWriter ==
    /\ dialect \in WriterDialects
    /\ text = <<>>
    /\ next_fill = NoTask
    /\ buffer = None
    /\ bpos = 0
    /\ pos = 0
    /\ scanner_line = 1
    /\ line_start = 0
    /\ state = NewReader.state
    /\ field = NewReader.field
    /\ line = NewReader.line
    /\ fieldnames = NewReader.fieldnames
    /\ line_num = NewReader.line_num
    /\ yielded = NewReader.yielded
    /\ prev = "NONE"
    /\ pc = "new"
    /\ needs_newline = FALSE
    /\ sink = <<>>
    /\ written = <<>>
    /\ failed_calls = 0
    /\ read_task = "none"
    /\ source_eof = FALSE
    /\ eof_tokens = 0
    /\ outstanding = 0

\* Writer.__init__: raises CsvError only for a quoting constant without a
\* case; the escape sequences are None when the dialect has no escapechar.
Writer_init ==
    /\ pc = "new"
    /\ pc' = IF dialect.quoting \in SupportedQuoting THEN "write"
             ELSE "init_error"
    /\ needs_newline' = FALSE
    /\ UNCHANGED <<dialect, text, scanner_vars, reader_vars, prev, sink,
                   written, failed_calls, history_vars>>

\* Mutant of writerow: the flag is set before the row is formatted.
writerow_flag_first ==
    /\ pc \in {"write", "write_error"}
    /\ Len(written) < MaxRows
    /\ needs_newline' = TRUE
    /\ \E row \in WriterRows(MaxWritten - TotalSize(written), MaxFields) :
          LET res == formatrow(dialect, needs_newline, row)
          IN  IF res.raises
              THEN /\ failed_calls < MaxFailed
                   /\ pc' = "write_error"
                   /\ failed_calls' = failed_calls + 1
                   /\ UNCHANGED <<sink, written>>
              ELSE /\ pc' = "write"
                   /\ sink' = sink \o res.text
                   /\ written' = Append(written, row)
                   /\ failed_calls' = failed_calls
    /\ UNCHANGED <<dialect, text, scanner_vars, reader_vars, prev,
                   history_vars>>

\* Writer.writerow(row): the formatted row is written and the flag is set;
\* when the encoding of a field raises, nothing is written.
writerow ==
    /\ pc \in {"write", "write_error"}
    /\ Len(written) < MaxRows
    /\ \E row \in WriterRows(MaxWritten - TotalSize(written), MaxFields) :
          LET res == formatrow(dialect, needs_newline, row)
          IN  IF res.raises
              THEN /\ failed_calls < MaxFailed
                   /\ pc' = "write_error"
                   /\ failed_calls' = failed_calls + 1
                   /\ UNCHANGED <<needs_newline, sink, written>>
              ELSE /\ pc' = "write"
                   /\ sink' = sink \o res.text
                   /\ needs_newline' = TRUE
                   /\ written' = Append(written, row)
                   /\ failed_calls' = failed_calls
    /\ UNCHANGED <<dialect, text, scanner_vars, reader_vars, prev,
                   history_vars>>

NextWriter ==
    \/ Writer_init
    \/ writerow

SpecWriter == InitWriter /\ [][NextWriter]_vars

(***************************************************************************)
(* Properties of the read path                                             *)
(***************************************************************************)
\* Kind of the token the next reader step handles (where HasToken holds).
TokenKind == Classify(dialect, current)

\* The characters the reader has handled before the token that is due.
Before == SubSeq(text, 1, TokPos)

\* The characters the reader has handled when the pass is over.
Consumed == IF pc = "done" THEN text ELSE SubSeq(text, 1, pos + 1)

StripCR(t) == SelectSeq(t, LAMBDA c : c # "\r")

\* End of input with nothing pending: no token at all, or the last token
\* was an LF that ended a row.
NothingPending ==
    \/ prev = "NONE"
    \/ prev = "LF" /\ state = "BEGIN_FIELD"

\* C1: when the EOF token arrives with nothing pending (empty input, or the
\* last character was a row-ending LF), the EOF handler yields no row.
C1_NoRowAtBareEOF ==
    [][(pc = "eof" /\ NothingPending) => yielded' = yielded]_vars

\* C2: a row of text fields without the line terminator, written by a
\* Writer of a consistent dialect and read back by a Reader of the same
\* dialect, comes back as exactly one row with the same fields.
C2_RoundTrip ==
    (pc \in {"done", "error"} /\ Len(written) = 1) =>
        /\ pc = "done"
        /\ yielded = <<FieldTexts(written[1])>>

\* A quote in the middle of an unquoted field, or an ordinary character
\* right after the closing quote of a quoted field.
BadQuote ==
    /\ HasToken
    /\ \/ TokenKind = "QUOTE" /\ state = "FIELD"
       \/ TokenKind = "CHAR" /\ state = "EXPECT_QUOTE_OR_FIELD_TERM"

\* C3: a quote in state FIELD and an ordinary character in state
\* EXPECT_QUOTE_OR_FIELD_TERM raise CsvError; the rows yielded by then are
\* exactly the rows of the text before the offending character, and the
\* error leaves them unchanged.
C3_BadQuoteRaises ==
    [][BadQuote =>
          /\ pc' = "raise"
          /\ yielded' = yielded
          /\ yielded = ParseTokens(dialect, Before).yielded]_vars

C3_Witness ==
    /\ pc = "error"
    /\ prev = "CHAR"
    /\ state = "EXPECT_QUOTE_OR_FIELD_TERM"
    /\ Len(yielded) >= 1

\* C4: once CsvError has been raised the pass is over: no further row is
\* yielded, no further token is consumed, the parser state does not move.
C4_ErrorIsFatal ==
    [][(pc \in {"raise", "error"}) =>
          /\ pc' \in {"raise", "error"}
          /\ reader_vars' = reader_vars
          /\ (UNCHANGED <<buffer, bpos, pos>>)]_vars

\* The pass has failed after a row was yielded, and the source had already
\* delivered a later line.
C4_Witness ==
    /\ pc = "error"
    /\ Len(yielded) >= 1
    /\ \E i \in (pos + 2)..Len(text) : text[i] = "\n"

NoQuoteIn(t) == \A i \in 1..Len(t) : t[i] # dialect.quotechar

\* C5: in state QUOTED_FIELD a delimiter, a space, an ordinary character
\* and an LF are appended to the field and end neither field nor row; a
\* delimiter outside any quoted region (here: no quote character has
\* occurred at all, and the delimiter does not directly follow the escape
\* character) ends the field.
C5_QuotedLiteralElseSplit ==
    [][HasToken =>
          /\ (state = "QUOTED_FIELD"
                /\ TokenKind \in {"CHAR", "WS", "DELIMITER", "LF"})
             => /\ field' = Append(field, current)
                /\ state' = "QUOTED_FIELD"
                /\ line' = line
                /\ yielded' = yielded
          /\ (TokenKind = "DELIMITER" /\ NoQuoteIn(Before)
                /\ prev # "ESCAPE_CHAR")
             => /\ line' = Append(line, field)
                /\ field' = <<>>]_vars

\* C6: in a quoted field the first quote of an adjacent pair moves to
\* EXPECT_QUOTE_OR_FIELD_TERM without writing, the second one writes one
\* quote character and returns to QUOTED_FIELD; neither ends the field or
\* the row, neither raises.
C6_DoubledQuote ==
    [][(HasToken /\ TokenKind = "QUOTE") =>
          /\ state = "QUOTED_FIELD"
             => /\ state' = "EXPECT_QUOTE_OR_FIELD_TERM"
                /\ field' = field
                /\ line' = line
                /\ pc' = "advance"
          /\ (state = "EXPECT_QUOTE_OR_FIELD_TERM" /\ prev = "QUOTE")
             => /\ state' = "QUOTED_FIELD"
                /\ field' = Append(field, dialect.quotechar)
                /\ line' = line
                /\ yielded' = yielded
                /\ pc' = "advance"]_vars

\* The input """" has been read as one field holding one quote character.
C6_Witness ==
    /\ pc = "done"
    /\ text = <<"\"", "\"", "\"", "\"">>
    /\ yielded = << << <<"\"">> >> >>

\* Position i of t lies outside every quoted region: an even number of
\* quote characters precedes it.
Outside(t, i) ==
    Cardinality({j \in 1..(i - 1) : t[j] = dialect.quotechar}) % 2 = 0

\* The positions of the LFs that end a row.
RowEnds(t) == {i \in 1..Len(t) : t[i] = "\n" /\ Outside(t, i)}

\* The delimiters outside quoted regions on the k-th line of t.
DelimitersOfRow(t, k) ==
    {i \in 1..Len(t) :
        /\ t[i] = dialect.delimiter
        /\ Outside(t, i)
        /\ Cardinality({e \in RowEnds(t) : e < i}) = k - 1}

\* No delimiter of t directly follows the escape character.
NoEscapedDelimiter(t) ==
    \A i \in 2..Len(t) :
        t[i] = dialect.delimiter =>
            (dialect.escapechar = NoChar \/ t[i - 1] # dialect.escapechar)

\* C7: every yielded row has one more field than there are delimiters
\* outside quoted regions on its own line, whatever the header row has.
C7_FieldCount ==
    (pc = "done" /\ NoEscapedDelimiter(text)) =>
        \A k \in 1..Len(yielded) :
            Len(yielded[k]) = 1 + Cardinality(DelimitersOfRow(text, k))

\* C8: the rows yielded (and whether the pass fails) are those of the same
\* text with every CR deleted.
C8_CRDiscarded ==
    pc \in {"done", "error"} =>
        LET r == ParseText(dialect, StripCR(Consumed))
        IN  /\ r.yielded = yielded
            /\ r.raised = (pc = "error")

\* A CRLF inside a quoted field has been read as the one character LF.
C8_Witness ==
    /\ pc = "done"
    /\ text = <<"\"", "\r", "\n", "\"">>
    /\ yielded = << << <<"\n">> >> >>

\* C9: fieldnames raises CsvError until a row has been finalized, and from
\* then on is the first row yielded, whatever rows follow.
C9_Fieldnames ==
    /\ yielded = <<>> => Reader_fieldnames(fieldnames).raises
    /\ yielded # <<>> =>
          /\ ~Reader_fieldnames(fieldnames).raises
          /\ Reader_fieldnames(fieldnames).value = yielded[1]

C9_Witness ==
    /\ Len(yielded) >= 2
    /\ yielded[2] # yielded[1]
    /\ ~Reader_fieldnames(fieldnames).raises
    /\ Reader_fieldnames(fieldnames).value = yielded[1]

\* C10: at BEGIN_FIELD a space is dropped and the state stays BEGIN_FIELD
\* when skipinitialspace is enabled, and is written as the first character
\* of the field when it is disabled; a quote at BEGIN_FIELD, also after
\* dropped spaces, opens a quoted field.
C10_SkipInitialSpace ==
    [][(HasToken /\ state = "BEGIN_FIELD") =>
          /\ TokenKind = "WS" =>
                IF dialect.skipinitialspace
                THEN /\ state' = "BEGIN_FIELD"
                     /\ field' = field
                     /\ line' = line
                     /\ yielded' = yielded
                ELSE /\ state' = "FIELD"
                     /\ field' = <<" ">>
          /\ (TokenKind = "QUOTE" /\ prev = "WS") =>
                /\ state' = "QUOTED_FIELD"
                /\ field' = <<>>]_vars

\* With skipinitialspace the input ' "a"' has been read as the field a.
C10_Witness ==
    /\ dialect.skipinitialspace
    /\ pc = "done"
    /\ text = <<" ", "\"", "a", "\"">>
    /\ yielded = << << <<"a">> >> >>

\* The text t ends inside a row of this shape: a quote opens a field (at
\* the start of the text or right after a delimiter or a row-ending LF,
\* with no escape character before it), the field goes on without quote,
\* escape character or LF up to an escape character that an ordinary
\* character follows, and neither a quote nor an LF comes after that.
BadEscape(t) ==
    /\ dialect.escapechar # NoChar
    /\ \E q \in 1..Len(t) : \E e \in (q + 1)..(Len(t) - 1) :
          /\ t[q] = dialect.quotechar
          /\ Outside(t, q)
          /\ q > 1 => t[q - 1] \in {dialect.delimiter, "\n"}
          /\ \A i \in 1..(e - 1) : t[i] # dialect.escapechar
          /\ \A i \in (q + 1)..Len(t) : t[i] \notin {dialect.quotechar, "\n"}
          /\ t[e] = dialect.escapechar
          /\ Classify(dialect, t[e + 1]) = "CHAR"

C12_ReadAheadCancelled ==
    /\ [](pc \in {"closed", "error"} =>
            /\ next_fill = NoTask
            /\ read_task \in {"done", "cancelled"})
    /\ [][(pc \in {"closed", "error"}) =>
            (UNCHANGED <<text, read_task, next_fill>>)]_vars

\* The consumer has stopped at a row while the next read was in flight.
C12_Witness ==
    /\ pc = "closed"
    /\ read_task = "cancelled"
    /\ Len(yielded) >= 1

\* C13: the empty chunk makes the scanner yield the EOF token; at most one
\* EOF token is ever yielded, nothing is consumed or yielded after it, and
\* once a read has returned the empty string no read is issued again.
C13_SingleEOF ==
    /\ [](eof_tokens <= 1 /\ (source_eof => read_task = "done"))
    /\ [][(buffer = Some(<<>>) /\ eof_tokens = 0) =>
            (eof_tokens' = 1 /\ prev' = "EOF")]_vars
    /\ [][(source_eof \/ eof_tokens >= 1) =>
            (UNCHANGED <<text, read_task, source_eof>>)]_vars
    /\ [][(eof_tokens >= 1) =>
            (UNCHANGED <<prev, eof_tokens, buffer, bpos, pos>>)]_vars

\* A pass over a non-empty text has ended with its EOF token.
C13_Witness ==
    /\ eof_tokens = 1
    /\ source_eof
    /\ prev = "EOF"
    /\ Len(text) >= 2
    /\ next_fill = NoTask

(***************************************************************************)
(* Properties of the write path                                            *)
(***************************************************************************)
\* The texts of parts with sep between every two neighbours.
RECURSIVE Joined(_, _)
Joined(sep, parts) ==
    IF parts = <<>> THEN <<>>
    ELSE IF Len(parts) = 1 THEN parts[1]
    ELSE parts[1] \o sep \o Joined(sep, Tail(parts))

\* The encoded fields of a row, and the row as it is expected in the file.
EncodedFields(row) == [i \in 1..Len(row) |-> quote(dialect, row[i]).text]

ExpectedRow(row) == Joined(<<dialect.delimiter>>, EncodedFields(row))

\* C14: after n >= 1 writerow calls the file holds the encoded rows in
\* call order with the line terminator between every two of them (none
\* before the first, none after the last), each row being its encoded
\* fields with the delimiter between them.
C14_TerminatorBetweenRows ==
    Len(written) >= 1 =>
        sink = Joined(dialect.lineterminator,
                      [k \in 1..Len(written) |-> ExpectedRow(written[k])])

\* The rows a,"" and a written with the excel dialect.
C14_Witness ==
    /\ dialect = excel
    /\ Len(written) = 2
    /\ Len(written[1]) = 2
    /\ sink = <<"a", ",", "\r", "\n", "a">>

\* Exactly one row of exactly one field has been written.
OneField == Len(written) = 1 /\ Len(written[1]) = 1

\* The text of that field.
TheValue == written[1][1].text

\* The text t with seq in the place of every occurrence of the character c.
EachAs(t, c, seq) ==
    Joined(<<>>, [i \in 1..Len(t) |-> IF t[i] = c THEN seq ELSE <<t[i]>>])

Wrapped(t) == <<dialect.quotechar>> \o t \o <<dialect.quotechar>>

\* C15: with QUOTE_MINIMAL and doublequote a field is wrapped in quote
\* characters exactly when its value holds the quote character or the
\* delimiter, every quote character inside being doubled then; otherwise
\* the value is written as it is.
C15_MinimalDoublequote ==
    (OneField /\ dialect.quoting = "QUOTE_MINIMAL" /\ dialect.doublequote) =>
        sink = IF Contains(TheValue, dialect.quotechar)
                    \/ Contains(TheValue, dialect.delimiter)
               THEN Wrapped(EachAs(TheValue, dialect.quotechar,
                                   <<dialect.quotechar, dialect.quotechar>>))
               ELSE TheValue

\* The value a, has been written as "a,".
C15_Witness ==
    /\ OneField
    /\ dialect.quoting = "QUOTE_MINIMAL"
    /\ dialect.doublequote
    /\ TheValue = <<"a", ",">>
    /\ sink = <<"\"", "a", ",", "\"">>

\* C16: with QUOTE_ALL and doublequote every field is wrapped in quote
\* characters and every quote character inside is doubled.
C16_AllDoublequote ==
    (OneField /\ dialect.quoting = "QUOTE_ALL" /\ dialect.doublequote) =>
        sink = Wrapped(EachAs(TheValue, dialect.quotechar,
                              <<dialect.quotechar, dialect.quotechar>>))

\* The value a" has been written as "a""".
C16_Witness ==
    /\ OneField
    /\ dialect.quoting = "QUOTE_ALL"
    /\ dialect.doublequote
    /\ TheValue = <<"a", "\"">>
    /\ sink = <<"\"", "a", "\"", "\"", "\"">>

\* C17: with QUOTE_ALL, doublequote disabled and an escapechar every field
\* is wrapped in quote characters and every quote character inside is
\* written as the escape character followed by the quote character.
C17_AllEscape ==
    (OneField /\ dialect.quoting = "QUOTE_ALL" /\ ~dialect.doublequote
        /\ dialect.escapechar # NoChar) =>
        sink = Wrapped(EachAs(TheValue, dialect.quotechar,
                              <<dialect.escapechar, dialect.quotechar>>))

\* C18: with QUOTE_NONE and an escapechar a field is never wrapped; every
\* delimiter in the value is written as the escape character followed by
\* the delimiter, and quote characters are written as they are.
C18_NoneEscapesDelimiter ==
    (OneField /\ dialect.quoting = "QUOTE_NONE"
        /\ dialect.escapechar # NoChar) =>
        sink = EachAs(TheValue, dialect.delimiter,
                      <<dialect.escapechar, dialect.delimiter>>)

\* The value ," has been written as \,".
C18_Witness ==
    /\ OneField
    /\ dialect.quoting = "QUOTE_NONE"
    /\ TheValue = <<",", "\"">>
    /\ sink = <<"\\", ",", "\"">>

\* C19: a Writer whose dialect has QUOTE_NONE and no escapechar is never
\* constructed: Writer.__init__ raises, and no row is ever written.
C19_NoneNeedsEscapechar ==
    (dialect.quoting = "QUOTE_NONE" /\ dialect.escapechar = NoChar) =>
        /\ pc \in {"new", "init_error"}
        /\ written = <<>>

(***************************************************************************)
(* Properties of the escape state                                          *)
(***************************************************************************)
\* C20: the token that directly follows a consumed escape character,
\* whatever its kind, is appended to the field as a literal character and
\* the state becomes FIELD; it ends neither field nor row and raises
\* nothing.
C20_EscapeOneToken ==
    [][(HasToken /\ state = "ESCAPE" /\ prev = "ESCAPE_CHAR"
          /\ TokenKind \in {"CHAR", "WS", "DELIMITER", "QUOTE", "LF",
                            "ESCAPE_CHAR"}) =>
          /\ field' = Append(field, current)
          /\ state' = "FIELD"
          /\ line' = line
          /\ yielded' = yielded
          /\ pc' = "advance"]_vars

(***************************************************************************)
(* Further properties of the read path                                     *)
(***************************************************************************)
\* C21: apart from a space at BEGIN_FIELD with skipinitialspace enabled, a
\* WS token is handled as the CHAR case would handle the same character
\* in the same state: same field, same next state, same rows, and the
\* same CsvError right after the closing quote of a quoted field.
C21_WhitespaceAsChar ==
    [][(HasToken /\ TokenKind = "WS"
          /\ ~(dialect.skipinitialspace /\ state = "BEGIN_FIELD")) =>
          LET r == CaseCHAR(R, dialect, current)
          IN  /\ (pc' = "raise") = r.raised
              /\ state' = r.state
              /\ field' = r.field
              /\ line' = r.line
              /\ yielded' = r.yielded]_vars

\* Number of quote characters in a text.
QuotesIn(t) == Cardinality({i \in 1..Len(t) : t[i] = dialect.quotechar})

\* C22: a quote character enters the field buffer only as the second of
\* two adjacent quote characters of the input inside a quoted region: the
\* token is a QUOTE, the state is EXPECT_QUOTE_OR_FIELD_TERM, and the
\* input character right before it (discarded CRs aside) is the quote
\* that closed the region; one pair gives one quote character.
C22_QuotesComeInPairs ==
    [][(QuotesIn(field') > QuotesIn(field)) =>
          /\ HasToken
          /\ TokenKind = "QUOTE"
          /\ state = "EXPECT_QUOTE_OR_FIELD_TERM"
          /\ QuotesIn(field') = QuotesIn(field) + 1
          /\ LET b == StripCR(Before)
             IN  /\ Len(b) >= 2
                 /\ b[Len(b)] = dialect.quotechar]_vars

\* The scanner has been entered, has not received the empty chunk and has
\* not been released.
Scanning == pc \in {"advance", "token", "yield", "raise", "closing"}

\* C23: while scanning exactly one read is outstanding, held in
\* _next_fill, and never more than one at any time; a chunk is received
\* only from that read, once it is over, and unless the chunk is empty the
\* next read is issued in the same step, before any token of the chunk is
\* consumed.
C23_OneReadAhead ==
    /\ [](/\ outstanding <= 1
          /\ Scanning => (outstanding = 1 /\ next_fill # NoTask))
    /\ [][(pc' \in {"token", "eof"}) =>
            /\ next_fill.status = "done"
            /\ buffer' = Some(next_fill.result)
            /\ pc' = "token" =>
                  (next_fill' = create_task /\ read_task' = "pending")]_vars

\* The next chunk has arrived while tokens of the current chunk are still
\* to be consumed.
C23_Witness ==
    /\ pc = "advance"
    /\ buffer # None
    /\ outstanding = 1
    /\ next_fill.status = "done"
    /\ Len(next_fill.result) > 0
    /\ Len(buffer[1]) > bpos + 1

\* C24: at the EOF token, whatever the parser state, the field buffer
\* becomes the last field of the current row, that row is yielded, no
\* error is raised and the pass is over.
C24_EOFFinalizes ==
    [][(pc = "eof") =>
          /\ yielded' = Append(yielded, Append(line, field))
          /\ field' = <<>>
          /\ line' = <<>>
          /\ pc' = "done"]_vars

\* The input ,"a (an unterminated quoted field) has been read as the row
\* of an empty field and the field a.
C24_Witness ==
    /\ pc = "done"
    /\ text = <<",", "\"", "a">>
    /\ yielded = << << <<>>, <<"a">> >> >>

\* C25: the kind of every token is the first match in the order quote
\* character, escape character (if one is configured), CR, LF, delimiter,
\* space, anything else; a dialect character that coincides with an
\* earlier one never gives its own kind.
C25_ClassificationOrder ==
    [][HasToken =>
          LET c == current
              isQuote == c = dialect.quotechar
              isEscape == dialect.escapechar # NoChar /\ c = dialect.escapechar
              isCR == c = "\r"
              isLF == c = "\n"
              isDelimiter == c = dialect.delimiter
              isSpace == c = " "
          IN  /\ isQuote => prev' = "QUOTE"
              /\ (~isQuote /\ isEscape) => prev' = "ESCAPE_CHAR"
              /\ (~isQuote /\ ~isEscape /\ isCR) => prev' = "CR"
              /\ (~isQuote /\ ~isEscape /\ ~isCR /\ isLF) => prev' = "LF"
              /\ (~isQuote /\ ~isEscape /\ ~isCR /\ ~isLF /\ isDelimiter) =>
                    prev' = "DELIMITER"
              /\ (~isQuote /\ ~isEscape /\ ~isCR /\ ~isLF /\ ~isDelimiter
                    /\ isSpace) =>
                    prev' = "WS"
              /\ (~isQuote /\ ~isEscape /\ ~isCR /\ ~isLF /\ ~isDelimiter
                    /\ ~isSpace) =>
                    prev' = "CHAR"]_vars

\* With the space as delimiter the input "a " has been read as the two
\* fields a and empty.
C25_Witness ==
    /\ dialect.delimiter = " "
    /\ dialect.escapechar = NoChar
    /\ pc = "done"
    /\ text = <<"a", " ">>
    /\ yielded = << << <<"a">>, <<>> >> >>

\* Number of characters whose tokens the reader has handled.
Handled ==
    IF buffer = None \/ pc = "start" THEN 0
    ELSE IF pc \in {"token", "eof", "done"} THEN pos
    ELSE pos + 1

\* The positions of the LF tokens of a text.
LFs(t) == {i \in 1..Len(t) : Classify(dialect, t[i]) = "LF"}

\* The scanner position of the last LF token of a text, 0 without one.
LastLF(t) ==
    IF LFs(t) = {} THEN 0
    ELSE (CHOOSE i \in LFs(t) : \A j \in LFs(t) : j <= i) - 1

\* C26: whatever the chunks were, the last token (kind, character, line,
\* column) and the whole state of the Reader are those of the text handled
\* so far: the characters are handled in order, each one once, line and
\* column count the LFs of the text, and the parser state, the field, the
\* row and the rows yielded are the fold of the token loop over the text.
C26_ChunkingInvisible ==
    (pc \notin {"start", "write", "new"}) =>
        LET n == Handled
            t == SubSeq(text, 1, n)
            r == IF pc = "done" THEN ParseText(dialect, t)
                 ELSE ParseTokens(dialect, t)
        IN  /\ n <= Len(text)
            /\ pc \in {"eof", "done"} => n = Len(text)
            /\ prev = IF pc = "done" THEN "EOF"
                      ELSE IF n = 0 THEN "NONE"
                      ELSE Classify(dialect, t[n])
            /\ scanner_line = 1 + Cardinality(LFs(t))
            /\ line_start = LastLF(t)
            /\ r.raised = (pc \in {"raise", "error"})
            /\ state = r.state
            /\ field = r.field
            /\ line = r.line
            /\ yielded = r.yielded
            /\ fieldnames = r.fieldnames
            /\ line_num = r.line_num

\* The input """" has arrived as two chunks of two characters, the doubled
\* quote straddling the boundary, and has been read up to its last quote.
C26_Witness ==
    /\ text = <<"\"", "\"", "\"", "\"">>
    /\ buffer = Some(<<"\"", "\"">>)
    /\ pos = 3
    /\ bpos = 1
    /\ state = "EXPECT_QUOTE_OR_FIELD_TERM"
    /\ field = <<"\"">>

(***************************************************************************)
(* Failed writes                                                           *)
(***************************************************************************)
\* C27: a writerow call whose row has a field that cannot be encoded
\* raises and leaves the file and the pending-terminator flag as they
\* were: no written row has such a field, the flag is set exactly when a
\* call has returned, nothing is in the file before that, and a row
\* written after a failed first call starts the file without a line
\* terminator.
C27_FailedRowWritesNothing ==
    /\ [](/\ \A k \in 1..Len(written) : \A i \in 1..Len(written[k]) :
                ~quote(dialect, written[k][i]).raises
          /\ needs_newline = (written # <<>>)
          /\ written = <<>> => sink = <<>>)
    /\ [][(failed_calls' > failed_calls) =>
            /\ pc' = "write_error"
            /\ (UNCHANGED <<sink, needs_newline, written>>)]_vars
    /\ [][(failed_calls > 0 /\ written = <<>> /\ written' # <<>>) =>
            sink' = ExpectedRow(written'[1])]_vars

\* With QUOTE_NONE and no escapechar a first call has failed and the row
\* a,a of the next call starts the file.
C27_Witness ==
    /\ dialect.quoting = "QUOTE_NONE"
    /\ dialect.escapechar = NoChar
    /\ failed_calls = 1
    /\ pc = "write"
    /\ Len(written) = 1
    /\ sink = <<"a", ",", "a">>

====
